---- MODULE Spec2Model ----
(***************************************************************************)
(* A model of the extension-host command and tool invocation bridge:       *)
(*   - CommandService (src/unnamed/part_001): executeCommand and           *)
(*     _tryExecuteCommand, with the activation futures it waits on;        *)
(*   - ExtHostLanguageModelTools                                            *)
(*     (src/src/vs/workbench/api/common/extHostLanguageModelTools.ts):     *)
(*     the mirrored tool table, the tool registry and the call-id scoped   *)
(*     invocation round trip with its count-tokens callback.               *)
(* Each part has its own specification over the shared variables; the     *)
(* variables of the other parts stay at their initial values.              *)
(***************************************************************************)
EXTENDS Integers, Sequences, FiniteSets, TLC

VARIABLES
    \* ---- CommandService ----
    extensionHostIsReady,   \* CommandService._extensionHostIsReady
    readyPromise,           \* the future of whenInstalledExtensionsRegistered()
    readyWaits,             \* how many times whenInstalledExtensionsRegistered() was called
    registry,               \* CommandsRegistry: command id -> handler, or NoCommand
    exec,                   \* the executeCommand calls: slot -> call record
    \* ---- ExtHostLanguageModelTools: the mirror ----
    allTools,               \* _allTools: a Map, as its entries in insertion order
    getTools,               \* the $getTools() request of the constructor, and its reply
    applied,                \* the last deltas $acceptToolDelta applied, with the table before each
    \* ---- the peer of the mirror (the main thread) ----
    mainTools,              \* the authoritative tool table the snapshot and the deltas come from
    channel,                \* messages from the peer to the mirror, in order
    \* ---- ExtHostLanguageModelTools: registration and invocation ----
    registeredTools,        \* _registeredTools: tool name -> the registered tool, or NoTool
    peerRegistered,         \* the names the peer holds as registered ($registerTool, $unregisterTool)
    handles,                \* the disposables registerTool returned that are not disposed yet
    tokenCountFuncs,        \* _tokenCountFuncs: call id -> counting function, or NoFunc
    calls,                  \* the invokeTool calls: slot -> call record
    countReply              \* what the last $countTokensForInvokation from the peer was answered

cmdVars == <<extensionHostIsReady, readyPromise, readyWaits, registry, exec>>

mirrorVars == <<allTools, getTools, applied>>

peerVars == <<mainTools, channel>>

toolVars == <<registeredTools, peerRegistered, handles, tokenCountFuncs, calls, countReply>>

vars == <<cmdVars, mirrorVars, peerVars, toolVars>>

-----------------------------------------------------------------------------
(* Bounds *)

\* executeCommand calls made over the life of the service
MaxExecs == 1

\* distinct descriptions a tool descriptor can carry
MaxDescriptions == 2

\* messages in flight from the peer to the mirror
MaxChannel == 2

\* invokeTool calls made over the life of the extension host
MaxCalls == 2

\* times one run of a tool handler calls its counting capability
MaxCountCalls == 1

\* registrations of one tool name whose disposables are held at a time
MaxHandles == 2

-----------------------------------------------------------------------------
(* CommandService: values *)

None == "none"

CommandIds == {"cmdA", "cmdB"}

\* The handlers a command can be registered with, named by what they do
\* when invoked: return a value, throw, or return a rejected promise.
Handlers == {"hReturns", "hThrows", "hRejects"}

NoCommand == "undefined"

Args == {<<"arg">>}

Execs == 1..MaxExecs

\* `command '${id}' not found`
NotFoundError(id) == [message |-> <<"command '", id, "' not found">>]

HandlerError(h) == [message |-> <<"error of", h>>]

ActivationError(event) == [message |-> <<"activation failed", event>>]

\* What a call did, in order: the entries of its log.
Event(ev, arg) == [ev |-> ev, arg |-> arg]

\* activateByEvent(`onCommand:${id}`) and activateByEvent(`*`)
OnCommand(id) == Event("activateByEvent:onCommand", id)

StarEvent == Event("activateByEvent:*", "")

\* whenInstalledExtensionsRegistered()
ReadyWait == Event("whenInstalledExtensionsRegistered", "")

IdleExec ==
    [pc |-> "idle", id |-> None, args |-> <<>>,
     commandIsRegistered |-> FALSE, readyAtCall |-> FALSE,
     activation |-> None, star |-> None, absentAtSettle |-> FALSE,
     atCallback |-> None,
     progress |-> FALSE, log |-> <<>>, result |-> None]

-----------------------------------------------------------------------------
(* ExtHostLanguageModelTools: values *)

\* An optional field: <<>> is undefined, <<x>> is x.
Undefined == <<>>

Some(x) == <<x>>

\* The ids of the tools that are invoked, and that the peer's table can hold.
ToolIds == {"search", "missing"}

\* The names tools are registered under in this extension host.
ToolNames == {"search"}

\* The ids a delta can carry: `removed` is any string, the empty one included.
DeltaToolIds == {"", "search"}

Descriptions == 1..MaxDescriptions

\* No entry of _registeredTools.
NoTool == "undefined"

\* The entry registerTool stores: { extension, tool }.
RegisteredTool(name) == <<"tool", name>>

\* The disposables registerTool(name) returned, by the order of the
\* registrations of the name since it last had none outstanding.
Handles == 1..MaxHandles

\* No registration of a name is outstanding.
NoHandles == [issued |-> 0, live |-> {}]

Calls == 1..MaxCalls

\* The values generateUuid() can return: one more than the calls made, so
\* that one is never issued.
Uuids == 1..(MaxCalls + 1)

\* No entry of _tokenCountFuncs.
NoFunc == 0

\* options.tokenOptions.countTokens of call c: each caller brings its own.
CountTokensOf(c) == c

\* The budgets a caller asks for; 0 is a budget too.
TokenBudgets == {0, 100}

\* What the peer asks $countTokensForInvokation to count: a string, or a
\* chat message as it travels.
CountInputs == {[type |-> "string", text |-> "hello"],
                [type |-> "IChatMessage", text |-> "hello"]}

\* What a tool handler asks its counting capability to count: a string, or a
\* chat message of the extension API.
HandlerInputs == {[type |-> "string", text |-> "hello"],
                  [type |-> "LanguageModelChatMessage", text |-> "hello"]}

\* The parameters of an invocation.
Parameters == {"q=x"}

\* The CancellationToken the caller of call c passes to invokeTool.
TokenOf(c) == <<"token of call", c>>

\* CancellationToken.None
NoneToken == <<"CancellationToken.None">>

IdleCall ==
    [st |-> "idle", origin |-> "here", callId |-> 0, toolId |-> "", parameters |-> "",
     tokenOptions |-> <<>>, cancelled |-> FALSE, request |-> "none", known |-> <<>>,
     owner |-> "none", capability |-> [kind |-> "none", fn |-> NoFunc],
     counts |-> 0, counted |-> <<>>,
     reply |-> <<>>, outcome |-> <<>>,
     requestToken |-> <<>>, handlerCalls |-> <<>>, asked |-> <<>>, countToken |-> <<>>,
     entryAtSend |-> <<>>, entryAtInvoke |-> <<>>]

-----------------------------------------------------------------------------
(* CommandService: pure parts *)

\* CommandsRegistry.getCommand(id)
GetCommand(reg, id) == reg[id]

\* this._instantiationService.invokeFunction(command.handler, ...args):
\* what the call does, as seen by the try block around it.
InvokeFunction(h, args) ==
    CASE h = "hReturns" -> [how |-> "return", value |-> <<"value of", h, args>>]
      [] h = "hThrows"  -> [how |-> "throw", error |-> HandlerError(h)]
      [] h = "hRejects" -> [how |-> "returnRejected", error |-> HandlerError(h)]

\* _tryExecuteCommand without the rejection of line 64: a missing command
\* resolves to undefined.
TryExecuteCommand_NoReject(reg, id, args) ==
    LET command == GetCommand(reg, id) IN
    IF command = NoCommand
    THEN [events |-> <<Event("getCommand", command)>>,
          result |-> [state |-> "resolved", value |-> <<"undefined">>]]
    ELSE LET r == InvokeFunction(command, args) IN
         [events |-> <<Event("getCommand", command),
                        Event("onWillExecuteCommand", id),
                        Event("invokeFunction", command)>>,
          result |-> IF r.how = "return"
                     THEN [state |-> "resolved", value |-> r.value]
                     ELSE [state |-> "rejected", error |-> r.error]]

\* _tryExecuteCommand with a catch that wraps what the handler threw or
\* rejected with in an error of its own.
TryExecuteCommand_Wraps(reg, id, args) ==
    LET command == GetCommand(reg, id) IN
    IF command = NoCommand
    THEN [events |-> <<Event("getCommand", command)>>,
          result |-> [state |-> "rejected", error |-> NotFoundError(id)]]
    ELSE LET r == InvokeFunction(command, args) IN
         [events |-> <<Event("getCommand", command),
                        Event("onWillExecuteCommand", id),
                        Event("invokeFunction", command)>>,
          result |-> IF r.how = "return"
                     THEN [state |-> "resolved", value |-> r.value]
                     ELSE [state |-> "rejected",
                           error |-> [message |-> <<"command failed", r.error>>]]]

\* _tryExecuteCommand with the notification fired after the handler has
\* been invoked.
TryExecuteCommand_FiresAfter(reg, id, args) ==
    LET command == GetCommand(reg, id) IN
    IF command = NoCommand
    THEN [events |-> <<Event("getCommand", command)>>,
          result |-> [state |-> "rejected", error |-> NotFoundError(id)]]
    ELSE LET r == InvokeFunction(command, args) IN
         [events |-> <<Event("getCommand", command),
                        Event("invokeFunction", command),
                        Event("onWillExecuteCommand", id)>>,
          result |-> IF r.how = "return"
                     THEN [state |-> "resolved", value |-> r.value]
                     ELSE [state |-> "rejected", error |-> r.error]]

\* _tryExecuteCommand(id, args): the events it adds to the call's log and
\* the promise it returns.
TryExecuteCommand(reg, id, args) ==
    LET command == GetCommand(reg, id) IN
    IF command = NoCommand
    THEN [events |-> <<Event("getCommand", command)>>,
          result |-> [state |-> "rejected", error |-> NotFoundError(id)]]
    ELSE LET r == InvokeFunction(command, args) IN
         [events |-> <<Event("getCommand", command),
                        Event("onWillExecuteCommand", id),
                        Event("invokeFunction", command)>>,
          result |-> IF r.how = "return"
                     THEN [state |-> "resolved", value |-> r.value]
                     ELSE [state |-> "rejected", error |-> r.error]]

\* How many of the calls in a log are whenInstalledExtensionsRegistered().
ReadyWaitsIn(events) == Len(SelectSeq(events, LAMBDA entry : entry = ReadyWait))

\* An executeCommand that asks for the readiness of the host on every call.
CallsBeforeBranch_AsksReadiness(reg, id) ==
    <<ReadyWait, OnCommand(id), Event("getCommand", GetCommand(reg, id))>>

\* An executeCommand that looks the command up before it sends the
\* activation event.
CallsBeforeBranch_LookupFirst(reg, id) ==
    <<Event("getCommand", GetCommand(reg, id)), OnCommand(id)>>

\* Lines 41-42: what executeCommand calls before it branches.
CallsBeforeBranch(reg, id) ==
    <<OnCommand(id), Event("getCommand", GetCommand(reg, id))>>

\* A wait in the manner of Promise.allSettled: fulfilled once every future
\* has settled, whichever way.
WaitFor_AllSettled(e) ==
    IF "pending" \in {e.activation, e.star} THEN "pending" ELSE "resolved"

\* A Promise.all that is fulfilled as soon as one of the two is.
WaitFor_Either(e) ==
    IF e.star = None
    THEN e.activation
    ELSE IF "rejected" \in {e.activation, e.star} THEN "rejected"
         ELSE IF e.activation = "resolved" \/ e.star = "resolved" THEN "resolved"
         ELSE "pending"

\* The state of waitFor (lines 47-50): the activation future alone, or
\* Promise.all of it and the activateByEvent('*') future.
WaitFor(e) ==
    IF e.star = None
    THEN e.activation
    ELSE IF "rejected" \in {e.activation, e.star} THEN "rejected"
         ELSE IF e.activation = "resolved" /\ e.star = "resolved" THEN "resolved"
         ELSE "pending"

\* The reason waitFor rejects with: the one of the future that rejected.
WaitError(e) ==
    IF e.activation = "rejected"
    THEN ActivationError(OnCommand(e.id))
    ELSE ActivationError(StarEvent)

\* Line 44 without the test of the flag.
NoWaitBranch_RegisteredOnly(ready, commandIsRegistered) == commandIsRegistered

\* Line 44 with the flag's test inverted.
NoWaitBranch_ReadyTested(ready, commandIsRegistered) == ready /\ commandIsRegistered

\* Line 44: the branch that does not wait.
NoWaitBranch(ready, commandIsRegistered) == ~ready /\ commandIsRegistered

-----------------------------------------------------------------------------
(* CommandService: actions *)

InitCommands ==
    /\ extensionHostIsReady = FALSE
    /\ readyPromise = "pending"
    /\ readyWaits = 1
    /\ registry \in [CommandIds -> {NoCommand}]
    /\ exec = [c \in Execs |-> IdleExec]
    /\ allTools = <<>>
    /\ getTools = [st |-> "requested", tools |-> <<>>]
    /\ applied = <<>>
    /\ mainTools = <<>>
    /\ channel = <<>>
    /\ registeredTools = [name \in ToolIds |-> NoTool]
    /\ peerRegistered = {}
    /\ handles = [name \in ToolIds |-> NoHandles]
    /\ tokenCountFuncs = [id \in Uuids |-> NoFunc]
    /\ calls = [c \in Calls |-> IdleCall]
    /\ countReply = <<>>

\* A continuation that runs whenever the extension service reports, not
\* once.
HostReady_Again(value) ==
    /\ readyPromise' = "resolved"
    /\ extensionHostIsReady' = value
    /\ UNCHANGED <<readyWaits, registry, exec, mirrorVars, peerVars, toolVars>>

\* The continuation of line 31: value => this._extensionHostIsReady = value
HostReady(value) ==
    /\ readyPromise = "pending"
    /\ readyPromise' = "resolved"
    /\ extensionHostIsReady' = value
    /\ UNCHANGED <<readyWaits, registry, exec, mirrorVars, peerVars, toolVars>>

\* CommandsRegistry.registerCommand(id, handler): one slot per id.
RegisterCommand(id, h) ==
    /\ registry[id] # h
    /\ registry' = [registry EXCEPT ![id] = h]
    /\ UNCHANGED <<extensionHostIsReady, readyPromise, readyWaits, exec, mirrorVars, peerVars, toolVars>>

\* Disposal of a command registration.
UnregisterCommand(id) ==
    /\ registry[id] # NoCommand
    /\ registry' = [registry EXCEPT ![id] = NoCommand]
    /\ UNCHANGED <<extensionHostIsReady, readyPromise, readyWaits, exec, mirrorVars, peerVars, toolVars>>

\* executeCommand(id, ...args), lines 34-59, up to its return.
ExecuteCommand(c, id, args) ==
    /\ exec[c].pc = "idle"
    /\ \A b \in Execs : b < c => exec[b].pc # "idle"
    /\ LET commandIsRegistered == GetCommand(registry, id) # NoCommand
           started == [IdleExec EXCEPT
                          !.id = id, !.args = args,
                          !.commandIsRegistered = commandIsRegistered,
                          !.readyAtCall = extensionHostIsReady,
                          !.activation = "pending",
                          !.log = CallsBeforeBranch(registry, id)]
       IN
       IF NoWaitBranch(extensionHostIsReady, commandIsRegistered)
       THEN LET t == TryExecuteCommand(registry, id, args) IN
            exec' = [exec EXCEPT ![c] =
                        [started EXCEPT !.pc = "done",
                                        !.log = @ \o t.events,
                                        !.result = t.result]]
       ELSE exec' = [exec EXCEPT ![c] =
                        [started EXCEPT
                            !.pc = "waiting",
                            !.star = IF commandIsRegistered THEN None ELSE "pending",
                            !.progress = TRUE,
                            !.log = @ \o (IF commandIsRegistered THEN <<>>
                                          ELSE <<StarEvent>>)
                                      \o <<Event("withProgress", id)>>]]
    /\ readyWaits' = readyWaits + ReadyWaitsIn(exec'[c].log)
    /\ UNCHANGED <<extensionHostIsReady, readyPromise, registry, mirrorVars, peerVars, toolVars>>

\* The future of activateByEvent(`onCommand:${id}`) settles while the call
\* waits on it (nothing in executeCommand observes it otherwise).
ActivationSettles(c, outcome) ==
    /\ exec[c].pc = "waiting"
    /\ WaitFor(exec[c]) = "pending"
    /\ exec[c].activation = "pending"
    /\ LET e == [exec[c] EXCEPT !.activation = outcome] IN
       exec' = [exec EXCEPT ![c] =
                   [e EXCEPT !.absentAtSettle =
                       IF WaitFor(e) # "pending"
                       THEN GetCommand(registry, e.id) = NoCommand
                       ELSE @]]
    /\ UNCHANGED <<extensionHostIsReady, readyPromise, readyWaits, registry, mirrorVars, peerVars, toolVars>>

\* The future of activateByEvent(`*`) settles while the call waits on it.
StarSettles(c, outcome) ==
    /\ exec[c].pc = "waiting"
    /\ WaitFor(exec[c]) = "pending"
    /\ exec[c].star = "pending"
    /\ LET e == [exec[c] EXCEPT !.star = outcome] IN
       exec' = [exec EXCEPT ![c] =
                   [e EXCEPT !.absentAtSettle =
                       IF WaitFor(e) # "pending"
                       THEN GetCommand(registry, e.id) = NoCommand
                       ELSE @]]
    /\ UNCHANGED <<extensionHostIsReady, readyPromise, readyWaits, registry, mirrorVars, peerVars, toolVars>>

\* A then-callback that executes what line 42 found at call time.
RegistryAtResume_AsAtCall(reg, e) == [reg EXCEPT ![e.id] = e.log[2].arg]

\* Line 62, run from the then-callback of line 57: getCommand reads the
\* registry as it is when the callback runs.
RegistryAtResume(reg, e) == reg

\* Line 57: waitFor.then(_ => this._tryExecuteCommand(id, args)), once
\* waitFor has settled.
Resume(c) ==
    /\ exec[c].pc = "waiting"
    /\ WaitFor(exec[c]) # "pending"
    /\ IF WaitFor(exec[c]) = "resolved"
       THEN LET t == TryExecuteCommand(RegistryAtResume(registry, exec[c]),
                                       exec[c].id, exec[c].args) IN
            exec' = [exec EXCEPT ![c].pc = "done",
                                 \* what the registry holds as the callback runs
                                 ![c].atCallback = registry[exec[c].id],
                                 ![c].log = @ \o <<Event("then", "")>> \o t.events,
                                 ![c].result = t.result]
       ELSE exec' = [exec EXCEPT ![c].pc = "done",
                                 ![c].result = [state |-> "rejected",
                                                error |-> WaitError(exec[c])]]
    /\ readyWaits' = readyWaits + ReadyWaitsIn(exec'[c].log) - ReadyWaitsIn(exec[c].log)
    /\ UNCHANGED <<extensionHostIsReady, readyPromise, registry, mirrorVars, peerVars, toolVars>>

NextCommands ==
    \/ \E value \in BOOLEAN : HostReady(value)
    \/ \E id \in CommandIds, h \in Handlers : RegisterCommand(id, h)
    \/ \E id \in CommandIds : UnregisterCommand(id)
    \/ \E c \in Execs, id \in CommandIds, args \in Args : ExecuteCommand(c, id, args)
    \/ \E c \in Execs, outcome \in {"resolved", "rejected"} : ActivationSettles(c, outcome)
    \/ \E c \in Execs, outcome \in {"resolved", "rejected"} : StarSettles(c, outcome)
    \/ \E c \in Execs : Resume(c)

SpecCommands == InitCommands /\ [][NextCommands]_vars

\* The same service and the same steps, as the specification of the properties
\* about the branch a call takes and the callback of line 57.
SpecDispatch == InitCommands /\ [][NextCommands]_vars

-----------------------------------------------------------------------------
(* ExtHostLanguageModelTools: descriptors and deltas *)

\* IToolData as it travels: not yet revived.
ToolData(ids) == [id : ids, description : Descriptions, revived : {FALSE}]

\* IToolDelta: { added?: IToolData; removed?: string }
ToolDeltas(ids) ==
    [added : {Undefined} \cup {Some(t) : t \in ToolData(ids)},
     removed : {Undefined} \cup {Some(id) : id \in ids}]

\* revive(tool) of vs/base/common/marshalling: the same descriptor, with its
\* marshalled parts turned into objects.
Revive(tool) == [tool EXCEPT !.revived = TRUE]

\* typeConvert.LanguageModelToolDescription.to(tool)
ToolDescriptionTo(tool) == [id |-> tool.id, description |-> tool.description]

\* JavaScript's truthiness of an optional string: undefined and '' are falsy.
TruthyString(opt) == opt # Undefined /\ opt[1] # ""

\* JavaScript's truthiness of an optional object: only undefined is falsy.
TruthyObject(opt) == opt # Undefined

-----------------------------------------------------------------------------
(* A JavaScript Map, as the sequence of its entries in insertion order *)

MapKeys(m) == {m[i].key : i \in 1..Len(m)}

MapHas(m, k) == k \in MapKeys(m)

MapIndex(m, k) == CHOOSE i \in 1..Len(m) : m[i].key = k

\* Map.prototype.get, for a key the map has
MapGet(m, k) == m[MapIndex(m, k)].value

\* A set that appends without looking for the key.
MapSet_AlwaysAppend(m, k, v) == Append(m, [key |-> k, value |-> v])

\* Map.prototype.set: a present key keeps its place, a new one goes last.
MapSet(m, k, v) ==
    IF MapHas(m, k)
    THEN [m EXCEPT ![MapIndex(m, k)] = [key |-> k, value |-> v]]
    ELSE Append(m, [key |-> k, value |-> v])

\* A delete written as splice(indexOf(k), 1): an absent key removes the
\* last entry.
MapDelete_SpliceLast(m, k) ==
    IF MapHas(m, k)
    THEN SelectSeq(m, LAMBDA e : e.key # k)
    ELSE SubSeq(m, 1, Len(m) - 1)

\* Map.prototype.delete
MapDelete(m, k) == SelectSeq(m, LAMBDA e : e.key # k)

\* Array.from(map.values())
MapValues(m) == [i \in 1..Len(m) |-> m[i].value]

-----------------------------------------------------------------------------
(* ExtHostLanguageModelTools: the mirror of the tool table *)

\* $acceptToolDelta(delta), lines 64-72, on the table
AcceptToolDelta(table, delta) ==
    LET afterAdd == IF TruthyObject(delta.added)
                    THEN MapSet(table, delta.added[1].id, delta.added[1])
                    ELSE table
    IN IF TruthyString(delta.removed)
       THEN MapDelete(afterAdd, delta.removed[1])
       ELSE afterAdd

RECURSIVE SetAllRevived(_, _)
\* The callback of lines 29-33: for (const tool of tools) set(tool.id, revive(tool))
SetAllRevived(table, tools) ==
    IF tools = <<>>
    THEN table
    ELSE SetAllRevived(MapSet(table, Head(tools).id, Revive(Head(tools))), Tail(tools))

\* get tools(), lines 74-77
Tools(table) ==
    [i \in 1..Len(table) |-> ToolDescriptionTo(MapValues(table)[i])]

\* The deltas applied last, the latest at the end: at most two are kept.
Remember(hist, delta, before) ==
    LET h == Append(hist, [delta |-> delta, before |-> before]) IN
    IF Len(h) > 2 THEN Tail(h) ELSE h

\* The lists $getTools() can answer with: descriptors of distinct tools.
Snapshots(ids) ==
    {<<>>} \cup {<<t>> : t \in ToolData(ids)}
           \cup {tu \in ToolData(ids) \X ToolData(ids) : tu[1].id # tu[2].id}

InitMirror == InitCommands

\* $acceptToolDelta(delta): a delta arrives at the mirror.
AcceptDelta(delta) ==
    /\ allTools' = AcceptToolDelta(allTools, delta)
    /\ applied' = Remember(applied, delta, allTools)
    /\ UNCHANGED <<getTools, cmdVars, peerVars, toolVars>>

\* The reply of $getTools() arrives and the callback of lines 29-33 runs.
SnapshotArrives(tools) ==
    /\ getTools.st = "requested"
    /\ getTools' = [st |-> "applied", tools |-> tools]
    /\ allTools' = SetAllRevived(allTools, tools)
    /\ applied' = <<>>
    /\ UNCHANGED <<cmdVars, peerVars, toolVars>>

NextMirror ==
    \/ \E delta \in ToolDeltas(DeltaToolIds) : AcceptDelta(delta)
    \/ \E tools \in Snapshots(DeltaToolIds) : SnapshotArrives(tools)

\* The mirror under every delta and every snapshot its peer can send.
SpecMirror == InitMirror /\ [][NextMirror]_vars

-----------------------------------------------------------------------------
(* ExtHostLanguageModelTools: registration and invocation, pure parts *)

\* `Unknown tool ${dto.toolId}`
UnknownToolError(toolId) == [message |-> <<"Unknown tool ", toolId>>]

\* `Tool invokation call ${callId} not found`
CallNotFoundError(callId) == [message |-> <<"Tool invokation call ", callId, " not found">>]

\* What a tool handler throws.
ToolHandlerError(toolId) == [message |-> <<"tool failed">>, tool |-> toolId]

\* What the peer answers when the tool ran on another side and failed there.
RemoteError(toolId) == [message |-> <<"remote failure">>, tool |-> toolId]

\* What awaiting a cancelled request rejects with.
CancelledError == [message |-> <<"Canceled">>]

\* typeConvert.LanguageModelChatMessage.to(input)
ChatMessageTo(input) == [type |-> "LanguageModelChatMessage", text |-> input.text]

\* typeConvert.LanguageModelChatMessage.from(value)
ChatMessageFrom(value) == [type |-> "IChatMessage", text |-> value.text]

\* typeConvert.LanguageModelToolResult.from(extensionResult)
ToolResultFrom(result) == [type |-> "IToolResult", content |-> result.content]

\* typeConvert.LanguageModelToolResult.to(result)
ToolResultTo(result) == [type |-> "LanguageModelToolResult", content |-> result.content]

\* What the handler of a tool returns for the parameters it is given.
ToolHandlerResult(toolId, parameters) ==
    [type |-> "LanguageModelToolResult", content |-> <<"result of", toolId, parameters>>]

\* The number the counting function fn returns for an input.
ApplyCount(fn, input) == [by |-> fn, of |-> input]

Threw(error) == [threw |-> TRUE, error |-> error, value |-> <<>>]

Returned(value) == [threw |-> FALSE, error |-> <<>>, value |-> value]

\* A lookup without the check of lines 38-40.
CountTokensForInvokation_NoCheck(funcs, callId, input) ==
    Returned(ApplyCount(funcs[callId],
                        IF input.type = "string" THEN input ELSE ChatMessageTo(input)))

\* A lookup that takes whatever counting function is registered.
CountTokensForInvokation_AnyFunc(funcs, callId, input) ==
    LET fns == {funcs[id] : id \in DOMAIN funcs} \ {NoFunc} IN
    IF fns = {}
    THEN Threw(CallNotFoundError(callId))
    ELSE LET fn == CHOOSE f \in fns : \A g \in fns : f <= g IN
         Returned(ApplyCount(fn, IF input.type = "string" THEN input ELSE ChatMessageTo(input)))

\* $countTokensForInvokation(callId, input, token), lines 36-43
CountTokensForInvokation(funcs, callId, input) ==
    LET fn == funcs[callId] IN
    IF fn = NoFunc
    THEN Threw(CallNotFoundError(callId))
    ELSE Returned(ApplyCount(fn, IF input.type = "string" THEN input ELSE ChatMessageTo(input)))

\* generateUuid() of vs/base/common/uuid: a value that is not in use (the
\* values are interchangeable: the first free one stands for any of them).
GenerateUuid(used) == CHOOSE id \in Uuids \ used : \A other \in Uuids \ used : id <= other

\* The call ids the calls made so far were given.
UsedUuids == {calls[c].callId : c \in {d \in Calls : calls[d].st # "idle"}}

\* vscode.LanguageModelToolInvokationOptions, as call c can pass them
InvokationOptions(c) ==
    [parameters : Parameters,
     tokenOptions : {Undefined} \cup
         {Some([tokenBudget |-> b, countTokens |-> CountTokensOf(c)]) : b \in TokenBudgets}]

\* Lines 52-57: the IToolInvokationDto of a call
InvokationDto(call) ==
    [toolId |-> call.toolId, callId |-> call.callId, parameters |-> call.parameters,
     tokenBudget |-> IF call.tokenOptions = Undefined
                     THEN Undefined
                     ELSE Some(call.tokenOptions[1].tokenBudget)]

\* A set without the test of line 47: a call that brings no tokenOptions
\* leaves an entry that holds undefined (-1 here).
RegisterCountFunc_Always(funcs, callId, options) ==
    [funcs EXCEPT ![callId] = IF TruthyObject(options.tokenOptions)
                              THEN options.tokenOptions[1].countTokens
                              ELSE -1]

\* An invokeTool that registers nothing before it sends the request.
RegisterCountFunc_Never(funcs, callId, options) == funcs

\* Lines 47-49: if (options.tokenOptions) set(callId, countTokens)
RegisterCountFunc(funcs, callId, options) ==
    IF TruthyObject(options.tokenOptions)
    THEN [funcs EXCEPT ![callId] = options.tokenOptions[1].countTokens]
    ELSE funcs

\* A capability built from whatever counting function this extension host
\* holds, whichever call it belongs to.
CountTokensCapability_AnyFunc(funcs, dto) ==
    LET fns == {funcs[id] : id \in DOMAIN funcs} \ {NoFunc} IN
    IF dto.tokenBudget = Undefined
    THEN [kind |-> "none", fn |-> NoFunc]
    ELSE IF fns # {}
         THEN [kind |-> "local", fn |-> CHOOSE f \in fns : \A g \in fns : f <= g]
         ELSE [kind |-> "remote", fn |-> NoFunc]

\* A capability that is the remote call whatever the map holds.
CountTokensCapability_Remote(funcs, dto) ==
    IF dto.tokenBudget = Undefined
    THEN [kind |-> "none", fn |-> NoFunc]
    ELSE [kind |-> "remote", fn |-> NoFunc]

\* Lines 86-92: the countTokens capability $invokeTool gives the handler
CountTokensCapability(funcs, dto) ==
    IF dto.tokenBudget = Undefined
    THEN [kind |-> "none", fn |-> NoFunc]
    ELSE IF funcs[dto.callId] # NoFunc
         THEN [kind |-> "local", fn |-> funcs[dto.callId]]
         ELSE [kind |-> "remote", fn |-> NoFunc]

\* Line 89, `(value, token = CancellationToken.None) =>`: the token the
\* remote count-tokens call is made with, given the one the handler passed.
CountTokensToken(passed) == IF passed = Undefined THEN NoneToken ELSE passed[1]

\* A call of tool.invoke that leaves the parameters of the request out.
HandlerCall_NoParameters(dto, token) == [parameters |-> "", token |-> token]

\* Line 94: the options and the token tool.invoke is called with. The
\* token of $invokeTool is the peer's image of the one the request carries.
HandlerCall(dto, token) == [parameters |-> dto.parameters, token |-> token]

\* A catch around the await that drops the rejection and waits on.
AwaitRejected_Swallowed(call, error) == [call EXCEPT !.reply = <<>>]

\* Lines 50-61 have no catch: a rejection of the awaited request is the
\* rejection of invokeTool, with the same error.
AwaitRejected(call, error) ==
    [call EXCEPT !.st = "settled", !.reply = <<>>, !.outcome = Some(Threw(error))]

\* A finally block that clears the whole map.
FinallyDelete_All(funcs, callId) == [id \in DOMAIN funcs |-> NoFunc]

\* A finally block that leaves the entry in place.
FinallyDelete_Skipped(funcs, callId) == funcs

\* Line 60: this._tokenCountFuncs.delete(callId)
FinallyDelete(funcs, callId) == [funcs EXCEPT ![callId] = NoFunc]

\* A lookup that takes the tool registered first, whatever the id asked for.
LookupTool_AnyTool(tools, toolId) ==
    IF \E n \in DOMAIN tools : tools[n] # NoTool
    THEN tools[CHOOSE n \in DOMAIN tools : tools[n] # NoTool]
    ELSE NoTool

\* Line 80: this._registeredTools.get(dto.toolId)
LookupTool(tools, toolId) == tools[toolId]

\* A registerTool that stores the tool and tells the peer nothing.
RegisterToolAnnounces_Nothing(name) == <<>>

\* Line 100: what registerTool(name) tells the peer.
RegisterToolAnnounces(name) == <<[method |-> "$registerTool", name |-> name]>>

\* Line 104: what the disposable of registerTool(name) tells the peer.
DisposeAnnounces(name) == <<[method |-> "$unregisterTool", name |-> name]>>

RECURSIVE PeerView(_, _)
\* The names the peer holds as registered after the announcements, in order.
PeerView(view, announcements) ==
    IF announcements = <<>>
    THEN view
    ELSE LET a == Head(announcements) IN
         PeerView(IF a.method = "$registerTool"
                  THEN view \cup {a.name}
                  ELSE view \ {a.name},
                  Tail(announcements))

-----------------------------------------------------------------------------
(* ExtHostLanguageModelTools: registration and invocation, actions *)

InitTools == InitCommands

\* registerTool(extension, name, tool), lines 98-102: the entry is set, the
\* peer is told, and a disposable of this registration is returned.
RegisterTool(name) ==
    /\ handles[name].issued < MaxHandles
    /\ registeredTools' = [registeredTools EXCEPT ![name] = RegisteredTool(name)]
    /\ peerRegistered' = PeerView(peerRegistered, RegisterToolAnnounces(name))
    /\ handles' = [handles EXCEPT ![name] =
                      [issued |-> @.issued + 1, live |-> @.live \cup {@.issued + 1}]]
    /\ UNCHANGED <<tokenCountFuncs, calls, countReply, cmdVars, mirrorVars, peerVars>>

\* A disposable that deletes the entry only if it is the entry of its own
\* registration, the latest one.
DisposeTool_OwnEntryOnly(name, h) ==
    /\ h \in handles[name].live
    /\ registeredTools' = IF h = handles[name].issued
                          THEN [registeredTools EXCEPT ![name] = NoTool]
                          ELSE registeredTools
    /\ peerRegistered' = IF h = handles[name].issued
                         THEN PeerView(peerRegistered, DisposeAnnounces(name))
                         ELSE peerRegistered
    /\ handles' = [handles EXCEPT ![name] =
                      IF @.live = {h} THEN NoHandles ELSE [@ EXCEPT !.live = @ \ {h}]]
    /\ UNCHANGED <<tokenCountFuncs, calls, countReply, cmdVars, mirrorVars, peerVars>>

\* The disposable that registration h of the name returned is disposed,
\* lines 102-105: delete(name) and $unregisterTool(name), whatever entry
\* the map holds for the name by now. A disposable runs once.
DisposeTool(name, h) ==
    /\ h \in handles[name].live
    /\ registeredTools' = [registeredTools EXCEPT ![name] = NoTool]
    /\ peerRegistered' = PeerView(peerRegistered, DisposeAnnounces(name))
    /\ handles' = [handles EXCEPT ![name] =
                      IF @.live = {h} THEN NoHandles ELSE [@ EXCEPT !.live = @ \ {h}]]
    /\ UNCHANGED <<tokenCountFuncs, calls, countReply, cmdVars, mirrorVars, peerVars>>

\* invokeTool(toolId, options, token), lines 45-57, up to its await
InvokeTool(c, toolId, options) ==
    /\ calls[c].st = "idle"
    /\ \A b \in Calls : b < c => calls[b].st # "idle"
    /\ LET callId == GenerateUuid(UsedUuids) IN
        /\ tokenCountFuncs' = RegisterCountFunc(tokenCountFuncs, callId, options)
        /\ calls' = [calls EXCEPT ![c] =
              [IdleCall EXCEPT !.st = "awaiting", !.callId = callId, !.toolId = toolId,
                               !.parameters = options.parameters,
                               !.tokenOptions = options.tokenOptions,
                               !.requestToken = Some(TokenOf(c)),
                               \* what the map holds for callId as line 52 sends
                               !.entryAtSend = Some(tokenCountFuncs'[callId]),
                               !.request = "sent"]]
    /\ UNCHANGED <<registeredTools, peerRegistered, handles, countReply, cmdVars, mirrorVars, peerVars>>

\* _tokenCountFuncs of the other extension host, which runs the same code:
\* the entry of a call made there is set at line 48 and deleted at line 60.
OtherFuncs ==
    [id \in Uuids |->
        IF \E c \in Calls : /\ calls[c].origin = "elsewhere"
                            /\ calls[c].st = "awaiting"
                            /\ calls[c].callId = id
                            /\ TruthyObject(calls[c].tokenOptions)
        THEN LET c == CHOOSE d \in Calls :
                          calls[d].origin = "elsewhere" /\ calls[d].callId = id
             IN calls[c].tokenOptions[1].countTokens
        ELSE NoFunc]

\* The _tokenCountFuncs of the extension host that made call c.
FuncsAt(c) == IF calls[c].origin = "here" THEN tokenCountFuncs ELSE OtherFuncs

\* invokeTool(toolId, options, token) is called in another extension host:
\* lines 45-57 run there, and the request comes to this one.
InvokeToolElsewhere(c, toolId, options) ==
    /\ calls[c].st = "idle"
    /\ \A b \in Calls : b < c => calls[b].st # "idle"
    /\ calls' = [calls EXCEPT ![c] =
          [IdleCall EXCEPT !.st = "awaiting", !.origin = "elsewhere",
                           !.callId = GenerateUuid(UsedUuids), !.toolId = toolId,
                           !.parameters = options.parameters,
                           !.tokenOptions = options.tokenOptions,
                           !.requestToken = Some(TokenOf(c)),
                           !.request = "sent"]]
    /\ UNCHANGED <<registeredTools, peerRegistered, handles, tokenCountFuncs, countReply,
                   cmdVars, mirrorVars, peerVars>>

\* The token of a call that is still awaited is cancelled.
CancelToken(c) ==
    /\ calls[c].st = "awaiting"
    /\ ~calls[c].cancelled
    /\ calls' = [calls EXCEPT ![c].cancelled = TRUE]
    /\ UNCHANGED <<registeredTools, peerRegistered, handles, tokenCountFuncs, countReply,
                   cmdVars, mirrorVars, peerVars>>

\* The peer hands the request of call c to this extension host:
\* $invokeTool(dto, token), lines 79-94, up to its await of tool.invoke.
DollarInvokeTool(c) ==
    /\ calls[c].request = "sent"
    /\ LET dto == InvokationDto(calls[c])
           item == LookupTool(registeredTools, dto.toolId)
       IN IF item = NoTool
          THEN calls' = [calls EXCEPT
                   ![c].request = "handled",
                   ![c].known = Some(registeredTools[dto.toolId] # NoTool),
                   ![c].reply = IF calls[c].st = "awaiting"
                                THEN Some(Threw(UnknownToolError(dto.toolId)))
                                ELSE <<>>]
          ELSE calls' = [calls EXCEPT
                   ![c].request = "handled",
                   ![c].known = Some(registeredTools[dto.toolId] # NoTool),
                   ![c].owner = "running",
                   \* what _tokenCountFuncs holds for the call id at line 89
                   ![c].entryAtInvoke = Some(tokenCountFuncs[dto.callId]),
                   ![c].handlerCalls = Append(@, HandlerCall(dto, calls[c].requestToken[1])),
                   ![c].capability = CountTokensCapability(tokenCountFuncs, dto)]
    /\ UNCHANGED <<registeredTools, peerRegistered, handles, tokenCountFuncs, countReply,
                   cmdVars, mirrorVars, peerVars>>

\* The peer hands the request of call c to another side, which answers.
PeerReplies(c, ok) ==
    /\ calls[c].request = "sent"
    /\ calls[c].st = "awaiting"
    /\ calls' = [calls EXCEPT
          ![c].request = "handled",
          ![c].reply = IF ok
                       THEN Some(Returned(ToolResultFrom(
                                ToolHandlerResult(calls[c].toolId, calls[c].parameters))))
                       ELSE Some(Threw(RemoteError(calls[c].toolId)))]
    /\ UNCHANGED <<registeredTools, peerRegistered, handles, tokenCountFuncs, countReply,
                   cmdVars, mirrorVars, peerVars>>

\* The handler of the tool calls options.tokenOptions.countTokens(input),
\* with no token of its own: the caller's own function when line 89 found
\* it, and otherwise the remote call of line 90, which the peer brings back
\* to $countTokensForInvokation.
HandlerCountsTokens(c, input) ==
    /\ calls[c].owner = "running"
    /\ calls[c].capability.kind # "none"
    /\ calls[c].counts < MaxCountCalls
    /\ LET answer ==
              IF calls[c].capability.kind = "local"
              THEN Returned(ApplyCount(calls[c].capability.fn, input))
              ELSE CountTokensForInvokation(FuncsAt(c), calls[c].callId,
                       IF input.type = "string" THEN input ELSE ChatMessageFrom(input))
       IN calls' = [calls EXCEPT
             ![c].counts = @ + 1,
             \* the input of the last count the handler received
             ![c].asked = IF answer.threw THEN @ ELSE Some(input),
             ![c].countToken = IF calls[c].capability.kind = "remote"
                               THEN Some(CountTokensToken(Undefined))
                               ELSE <<>>,
             ![c].counted = Some(answer)]
    /\ UNCHANGED <<registeredTools, peerRegistered, handles, tokenCountFuncs, countReply,
                   cmdVars, mirrorVars, peerVars>>

\* tool.invoke settles and $invokeTool returns or throws, lines 94-95; the
\* answer travels to the caller if it still waits.
HandlerSettles(c, ok) ==
    /\ calls[c].owner = "running"
    /\ calls' = [calls EXCEPT
          ![c].owner = "settled",
          ![c].reply = IF calls[c].st # "awaiting"
                       THEN <<>>
                       ELSE IF ok
                       THEN Some(Returned(ToolResultFrom(
                                ToolHandlerResult(calls[c].toolId,
                                                  calls[c].handlerCalls[1].parameters))))
                       ELSE Some(Threw(ToolHandlerError(calls[c].toolId)))]
    /\ UNCHANGED <<registeredTools, peerRegistered, handles, tokenCountFuncs, countReply,
                   cmdVars, mirrorVars, peerVars>>

\* The await of line 52 gets the answer: lines 58-61.
InvokeToolSettles(c) ==
    /\ calls[c].st = "awaiting"
    /\ calls[c].reply # <<>>
    /\ tokenCountFuncs' = IF calls[c].origin = "here"
                          THEN FinallyDelete(tokenCountFuncs, calls[c].callId)
                          ELSE tokenCountFuncs
    /\ calls' = [calls EXCEPT
          ![c].st = "settled",
          ![c].reply = <<>>,
          ![c].outcome = IF calls[c].reply[1].threw
                         THEN calls[c].reply
                         ELSE Some(Returned(ToolResultTo(calls[c].reply[1].value)))]
    /\ UNCHANGED <<registeredTools, peerRegistered, handles, countReply, cmdVars, mirrorVars, peerVars>>

\* The await of line 52 ends because the token was cancelled: lines 59-61.
InvokeToolCancelled(c) ==
    /\ calls[c].st = "awaiting"
    /\ calls[c].cancelled
    /\ tokenCountFuncs' = IF calls[c].origin = "here"
                          THEN FinallyDelete(tokenCountFuncs, calls[c].callId)
                          ELSE tokenCountFuncs
    /\ calls' = [calls EXCEPT ![c] = AwaitRejected(calls[c], CancelledError)]
    /\ UNCHANGED <<registeredTools, peerRegistered, handles, countReply, cmdVars, mirrorVars, peerVars>>

\* The peer calls $countTokensForInvokation(callId, input, token) for a tool
\* that runs on another side.
PeerCountsTokens(callId, input) ==
    /\ countReply' = Some([callId |-> callId, input |-> input,
                           registered |-> tokenCountFuncs[callId],
                           answer |-> CountTokensForInvokation(tokenCountFuncs, callId, input)])
    /\ UNCHANGED <<registeredTools, peerRegistered, handles, tokenCountFuncs, calls,
                   cmdVars, mirrorVars, peerVars>>

NextTools ==
    \/ \E name \in ToolNames : handles[name] = NoHandles /\ RegisterTool(name)
    \/ \E name \in ToolNames, h \in Handles : DisposeTool(name, h)
    \/ \E c \in Calls, toolId \in ToolIds :
          \E options \in InvokationOptions(c) : InvokeTool(c, toolId, options)
    \/ \E c \in Calls : CancelToken(c)
    \/ \E c \in Calls : DollarInvokeTool(c)
    \/ \E c \in Calls, ok \in BOOLEAN : PeerReplies(c, ok)
    \/ \E c \in Calls, input \in HandlerInputs : HandlerCountsTokens(c, input)
    \/ \E c \in Calls, ok \in BOOLEAN : HandlerSettles(c, ok)
    \/ \E c \in Calls : InvokeToolSettles(c)
    \/ \E c \in Calls : InvokeToolCancelled(c)
    \/ \E callId \in Uuids, input \in CountInputs : PeerCountsTokens(callId, input)

SpecTools == InitTools /\ [][NextTools]_vars

\* The extension host as the caller of a tool that runs on another side.
NextCaller ==
    \/ \E c \in Calls : \E options \in InvokationOptions(c) : InvokeTool(c, "search", options)
    \/ \E c \in Calls : CancelToken(c)
    \/ \E c \in Calls, ok \in BOOLEAN : PeerReplies(c, ok)
    \/ \E c \in Calls : InvokeToolSettles(c)
    \/ \E c \in Calls : InvokeToolCancelled(c)
    \/ \E callId \in Uuids, input \in CountInputs : PeerCountsTokens(callId, input)

SpecCaller == InitTools /\ [][NextCaller]_vars

\* The caller and its cancellation, with a peer that may answer or not:
\* once the awaited request has rejected, the continuation of the await
\* (lines 59-61) is a job the event loop runs.
NextCancel ==
    \/ \E c \in Calls : \E options \in InvokationOptions(c) : InvokeTool(c, "search", options)
    \/ \E c \in Calls : CancelToken(c)
    \/ \E c \in Calls, ok \in BOOLEAN : PeerReplies(c, ok)
    \/ \E c \in Calls : InvokeToolSettles(c)
    \/ \E c \in Calls : InvokeToolCancelled(c)

SpecCancel ==
    /\ InitTools
    /\ [][NextCancel]_vars
    /\ \A c \in Calls : WF_vars(InvokeToolCancelled(c))

\* Options without tokenOptions.
PlainOptions(c) == {o \in InvokationOptions(c) : o.tokenOptions = Undefined}

\* Registrations of a name over one another, their disposables disposed in
\* any order, and invocations of the name in between.
NextRegistration ==
    \/ \E name \in ToolIds : RegisterTool(name)
    \/ \E name \in ToolIds, h \in Handles : DisposeTool(name, h)
    \/ \E c \in Calls, toolId \in ToolIds :
          \E options \in PlainOptions(c) : InvokeTool(c, toolId, options)
    \/ \E c \in Calls : DollarInvokeTool(c)
    \/ \E c \in Calls, ok \in BOOLEAN : HandlerSettles(c, ok)
    \/ \E c \in Calls : InvokeToolSettles(c)

SpecRegistration == InitTools /\ [][NextRegistration]_vars

\* Options that bring a counting function and a token budget: the calls for
\* which lines 86-92 build a count-tokens capability at all.
BudgetedOptions(c) ==
    {o \in InvokationOptions(c) :
        o.tokenOptions # Undefined /\ o.tokenOptions[1].tokenBudget = 100}

\* The extension host as the owner of the tools its own calls ask for; a
\* name is registered anew only when no registration of it is outstanding.
NextOwner ==
    \/ \E name \in ToolNames : handles[name] = NoHandles /\ RegisterTool(name)
    \/ \E name \in ToolNames, h \in Handles : DisposeTool(name, h)
    \/ \E c \in Calls, toolId \in ToolIds :
          \E options \in BudgetedOptions(c) : InvokeTool(c, toolId, options)
    \/ \E c \in Calls : CancelToken(c)
    \/ \E c \in Calls : DollarInvokeTool(c)
    \/ \E c \in Calls, input \in HandlerInputs : HandlerCountsTokens(c, input)
    \/ \E c \in Calls, ok \in BOOLEAN : HandlerSettles(c, ok)
    \/ \E c \in Calls : InvokeToolSettles(c)
    \/ \E c \in Calls : InvokeToolCancelled(c)

SpecOwner == InitTools /\ [][NextOwner]_vars

\* The extension host as the owner of a tool that runs for calls of its own
\* and for calls made in another extension host, whose counting functions
\* the handler reaches through the count-tokens callback.
NextRoundTrip ==
    \/ \E name \in ToolNames : handles[name] = NoHandles /\ RegisterTool(name)
    \/ \E c \in Calls : \E options \in BudgetedOptions(c) : InvokeTool(c, "search", options)
    \/ \E c \in Calls : \E options \in BudgetedOptions(c) :
          InvokeToolElsewhere(c, "search", options)
    \/ \E c \in Calls : DollarInvokeTool(c)
    \/ \E c \in Calls, input \in HandlerInputs : HandlerCountsTokens(c, input)
    \/ \E c \in Calls, ok \in BOOLEAN : HandlerSettles(c, ok)
    \/ \E c \in Calls : InvokeToolSettles(c)

SpecRoundTrip == InitTools /\ [][NextRoundTrip]_vars

\* The ids of the tools the mirror lists.
ListedIds == {Tools(allTools)[i].id : i \in 1..Len(allTools)}

\* Registration, the snapshot and the invocation of a listed tool: tools
\* are registered here and disposed, the snapshot arrives, and callers
\* invoke what the mirror lists.
NextEndToEnd ==
    \/ \E name \in ToolIds : handles[name] = NoHandles /\ RegisterTool(name)
    \/ \E name \in ToolIds, h \in Handles : DisposeTool(name, h)
    \/ \E tools \in Snapshots(ToolIds) : SnapshotArrives(tools)
    \/ \E c \in Calls, toolId \in ListedIds :
          \E options \in PlainOptions(c) : InvokeTool(c, toolId, options)
    \/ \E c \in Calls : DollarInvokeTool(c)
    \/ \E c \in Calls, ok \in BOOLEAN : HandlerSettles(c, ok)
    \/ \E c \in Calls : InvokeToolSettles(c)

SpecEndToEnd == InitTools /\ [][NextEndToEnd]_vars

-----------------------------------------------------------------------------
(* Invocation: what the calls' records say *)

InFlight(c) == calls[c].st = "awaiting"

Settled(c) == calls[c].st = "settled"

\* The call brought a counting function.
WithCounting(c) == calls[c].tokenOptions # Undefined

\* The three maps of the extension host.
Maps == <<registeredTools, tokenCountFuncs, allTools>>

\* C3: after an invokeTool call has settled, by the answer of the request,
\* by its failure or by cancellation, _tokenCountFuncs has no entry for the
\* call id of that invocation.
C3_NoEntryAfterSettlement ==
    \A c \in Calls : Settled(c) => tokenCountFuncs[calls[c].callId] = NoFunc

C3_Witness ==
    \E c, d \in Calls :
        /\ Settled(c) /\ WithCounting(c) /\ calls[c].outcome = Some(Threw(CancelledError))
        /\ Settled(d) /\ WithCounting(d) /\ ~calls[d].outcome[1].threw

\* C4: $countTokensForInvokation for a call id that has no registered
\* counting function fails with the error that names the call id, returns no
\* count of any counting function, and leaves the three maps as they were.
C4_UnknownCallIdFails ==
    /\ [](countReply # <<>> /\ countReply[1].registered = NoFunc
            => countReply[1].answer = Threw(CallNotFoundError(countReply[1].callId)))
    /\ [][countReply' # countReply => Maps' = Maps]_vars

C4_Witness ==
    \E c \in Calls :
        /\ Settled(c) /\ WithCounting(c)
        /\ countReply # <<>>
        /\ countReply[1].callId = calls[c].callId
        /\ countReply[1].registered = NoFunc
        /\ countReply[1].answer.threw

\* C5: two invokeTool calls in flight at the same time have distinct call
\* ids, and a count-tokens callback with the call id of an invocation is
\* answered by the counting function that invocation brought, on the input
\* of the callback, never by the function of another invocation.
C5_CallIdsSeparateInvocations ==
    /\ \A c, d \in Calls :
          (InFlight(c) /\ InFlight(d) /\ c # d) => calls[c].callId # calls[d].callId
    /\ \A c \in Calls :
          (/\ countReply # <<>>
           /\ calls[c].st # "idle"
           /\ calls[c].callId = countReply[1].callId
           /\ ~countReply[1].answer.threw)
             => /\ WithCounting(c)
                /\ countReply[1].answer.value.by = calls[c].tokenOptions[1].countTokens
                /\ countReply[1].answer.value.of.text = countReply[1].input.text

C5_Witness ==
    \E c, d \in Calls :
        /\ c # d
        /\ InFlight(c) /\ WithCounting(c)
        /\ InFlight(d) /\ WithCounting(d)
        /\ countReply # <<>>
        /\ countReply[1].callId = calls[d].callId
        /\ countReply[1].input.type = "IChatMessage"
        /\ countReply[1].answer = Returned(ApplyCount(CountTokensOf(d),
                                       ChatMessageTo(countReply[1].input)))

\* C10: $invokeTool for a tool id that is not in _registeredTools fails with
\* `Unknown tool <id>`, starts no tool handler, issues no count-tokens call
\* and leaves the registries as they were; the caller of invokeTool gets
\* that error unchanged (unless its token was cancelled first).
C10_UnknownToolFails ==
    /\ [](\A c \in Calls :
            calls[c].known = Some(FALSE)
              => /\ calls[c].owner = "none"
                 /\ calls[c].counts = 0 /\ calls[c].counted = <<>>
                 /\ (InFlight(c) =>
                        calls[c].reply = Some(Threw(UnknownToolError(calls[c].toolId))))
                 /\ (Settled(c) =>
                        \/ calls[c].outcome = Some(Threw(UnknownToolError(calls[c].toolId)))
                        \/ calls[c].cancelled /\ calls[c].outcome = Some(Threw(CancelledError))))
    /\ [][\A c \in Calls :
            (calls[c].known = <<>> /\ calls'[c].known = Some(FALSE))
              => (Maps' = Maps /\ peerRegistered' = peerRegistered)]_vars

C10_Witness ==
    \E c \in Calls :
        /\ calls[c].known = Some(FALSE)
        /\ calls[c].toolId = "missing"
        /\ registeredTools["search"] # NoTool
        /\ Settled(c)
        /\ calls[c].outcome = Some(Threw(UnknownToolError("missing")))

\* What the caller of call c gets when the handler of its tool returned.
HandlerResultAtCaller(c) ==
    ToolResultTo(ToolResultFrom(ToolHandlerResult(calls[c].toolId, calls[c].parameters)))

\* C11: a handler that calls its counting capability while the invocation
\* is in flight receives what the counting function of that invocation's
\* caller returns for the input it passed; once the handler has returned
\* the caller can take the result, and when it has taken it the result is
\* the handler's and no counting function is registered for the call id.
C11_TokenCountRoundTrip ==
    \A c \in Calls :
        /\ (InFlight(c) /\ calls[c].counted # <<>>)
              => /\ WithCounting(c)
                 /\ calls[c].counted[1] =
                       Returned(ApplyCount(calls[c].tokenOptions[1].countTokens,
                                           calls[c].asked[1]))
        /\ (InFlight(c) /\ calls[c].owner = "settled")
              => (calls[c].reply # <<>> /\ ENABLED InvokeToolSettles(c))
        /\ (Settled(c) /\ ~calls[c].outcome[1].threw)
              => /\ calls[c].outcome[1] = Returned(HandlerResultAtCaller(c))
                 /\ FuncsAt(c)[calls[c].callId] = NoFunc
                 /\ tokenCountFuncs[calls[c].callId] = NoFunc

C11_Witness ==
    \E c, d \in Calls :
        /\ calls[c].origin = "elsewhere" /\ calls[d].origin = "here"
        /\ InFlight(d) /\ WithCounting(d)
        /\ Settled(c)
        /\ calls[c].tokenOptions[1].tokenBudget = 100
        /\ calls[c].capability.kind = "remote"
        /\ calls[c].asked = Some([type |-> "LanguageModelChatMessage", text |-> "hello"])
        /\ calls[c].counted = Some(Returned(ApplyCount(CountTokensOf(c), calls[c].asked[1])))
        /\ calls[c].outcome = Some(Returned(HandlerResultAtCaller(c)))

\* C12: a tool of the snapshot is in the mirror's listing; when a listed
\* tool that is registered here is invoked with parameters P, its handler
\* is called once, with P, and what the caller gets is that handler's
\* result (or that handler's failure).
C12_EndToEnd ==
    /\ getTools.st = "applied"
          => \A i \in 1..Len(getTools.tools) :
                \E k \in 1..Len(allTools) :
                    Tools(allTools)[k] = ToolDescriptionTo(getTools.tools[i])
    /\ \A c \in Calls :
          /\ calls[c].known = Some(TRUE)
                => calls[c].handlerCalls =
                      <<[parameters |-> calls[c].parameters, token |-> TokenOf(c)]>>
          /\ (calls[c].known = Some(TRUE) /\ InFlight(c) /\ calls[c].owner = "settled")
                => ENABLED InvokeToolSettles(c)
          /\ (calls[c].known = Some(TRUE) /\ Settled(c))
                => \/ calls[c].outcome = Some(Returned(HandlerResultAtCaller(c)))
                   \/ calls[c].outcome = Some(Threw(ToolHandlerError(calls[c].toolId)))
          /\ calls[c].known # Some(TRUE) => calls[c].handlerCalls = <<>>

C12_Witness ==
    \E c \in Calls :
        /\ registeredTools["search"] # NoTool
        /\ getTools.st = "applied"
        /\ \E i \in 1..Len(getTools.tools) : getTools.tools[i].id = "search"
        /\ "search" \in ListedIds
        /\ calls[c].toolId = "search" /\ calls[c].parameters = "q=x"
        /\ calls[c].handlerCalls = <<[parameters |-> "q=x", token |-> TokenOf(c)]>>
        /\ Settled(c)
        /\ calls[c].outcome = Some(Returned(ToolResultTo(ToolResultFrom(
                                   ToolHandlerResult("search", "q=x")))))

\* C15: the token passed to invokeTool is the token the request carries,
\* the token every call of the tool handler is given, and the token of
\* every remote count-tokens call made during the invocation.
C15_TokenPropagates ==
    \A c \in Calls :
        /\ calls[c].request # "none" => calls[c].requestToken = Some(TokenOf(c))
        /\ \A i \in 1..Len(calls[c].handlerCalls) :
              calls[c].handlerCalls[i].token = TokenOf(c)
        /\ calls[c].countToken # <<>> => calls[c].countToken = Some(TokenOf(c))

\* Call c fails in this step: its caller gets an error (the request's or
\* the cancellation), $invokeTool throws for it (unknown tool, handler
\* failure), or its count-tokens call throws (unknown call id).
FailsNow(c) ==
    /\ calls'[c] # calls[c]
    /\ \/ calls[c].outcome = <<>> /\ calls'[c].outcome # <<>> /\ calls'[c].outcome[1].threw
       \/ calls'[c].reply # calls[c].reply /\ calls'[c].reply # <<>> /\ calls'[c].reply[1].threw
       \/ calls[c].known = <<>> /\ calls'[c].known = Some(FALSE)
       \/ calls[c].counted = <<>> /\ calls'[c].counted # <<>> /\ calls'[c].counted[1].threw

\* The counting function of call d is registered in its extension host and
\* answers the count-tokens callbacks for its call id.
AnswersOwnCallbacks(d) ==
    /\ FuncsAt(d)[calls[d].callId] = calls[d].tokenOptions[1].countTokens
    /\ \A input \in CountInputs :
          CountTokensForInvokation(FuncsAt(d), calls[d].callId, input)
            = Returned(ApplyCount(calls[d].tokenOptions[1].countTokens,
                                  IF input.type = "string" THEN input
                                  ELSE ChatMessageTo(input)))

\* C16: a step in which one invocation fails leaves _registeredTools,
\* _allTools and every other invocation as they were, and in every state,
\* whatever has failed before, each invocation in flight that brought a
\* counting function has it registered and answering its own callbacks.
C16_FailureIsolation ==
    /\ [](\A d \in Calls : (InFlight(d) /\ WithCounting(d)) => AnswersOwnCallbacks(d))
    /\ [][\A c \in Calls :
            FailsNow(c)
              => /\ registeredTools' = registeredTools
                 /\ allTools' = allTools
                 /\ \A d \in Calls \ {c} : calls'[d] = calls[d]]_vars

C16_Witness ==
    \E c, d \in Calls :
        /\ c # d
        /\ Settled(c) /\ calls[c].outcome = Some(Threw(ToolHandlerError(calls[c].toolId)))
        /\ InFlight(d) /\ WithCounting(d)
        /\ AnswersOwnCallbacks(d)

\* C17: with registerTool(name) announcing $registerTool(name) and its
\* disposable announcing $unregisterTool(name), a name has an entry in
\* _registeredTools iff the peer, going by the announcements in order, holds
\* it as registered; $invokeTool finds the entry of a registered name and
\* runs its handler, and finds none for a name that is not registered.
C17_RegistrationBookkeeping ==
    /\ \A name \in ToolIds :
          /\ registeredTools[name] # NoTool <=> name \in peerRegistered
          /\ registeredTools[name] # NoTool
                => LookupTool(registeredTools, name) = RegisteredTool(name)
    /\ \A c \in Calls :
          calls[c].request = "handled"
            => /\ calls[c].known = Some(TRUE) <=> calls[c].owner # "none"
               /\ calls[c].known = Some(TRUE) <=> Len(calls[c].handlerCalls) = 1

C17_Witness ==
    /\ registeredTools["search"] # NoTool
    /\ registeredTools["missing"] = NoTool
    /\ peerRegistered = {"search"}
    /\ \E c, d \in Calls :
          /\ calls[c].toolId = "missing" /\ calls[c].known = Some(TRUE)
          /\ calls[d].toolId = "missing" /\ calls[d].known = Some(FALSE)

-----------------------------------------------------------------------------
(* The mirror: what the last deltas did *)

\* The delta carries an added descriptor and nothing else.
OnlyAdded(delta) == delta.added # Undefined /\ delta.removed = Undefined

\* The delta carries a removed id and nothing else.
OnlyRemoved(delta) == delta.added = Undefined /\ delta.removed # Undefined

\* The entries of a table other than the one of id.
Without(table, id) == SelectSeq(table, LAMBDA e : e.key # id)

\* C7: applying {added: T} and then {removed: T.id} leaves the table without
\* an entry for T.id, and every other entry as it was before the two deltas.
C7_AddThenRemove ==
    (/\ Len(applied) = 2
     /\ OnlyAdded(applied[1].delta)
     /\ OnlyRemoved(applied[2].delta)
     /\ applied[2].delta.removed[1] = applied[1].delta.added[1].id)
        => LET id == applied[1].delta.added[1].id IN
           /\ ~MapHas(allTools, id)
           /\ allTools = Without(applied[1].before, id)

\* C8: applying {removed: X} to a table with no entry for X leaves the table
\* and the tools listing exactly as they were.
C8_RemoveAbsentIsNoOp ==
    \A i \in 1..Len(applied) :
        LET d == applied[i].delta
            before == applied[i].before
            after == IF i = Len(applied) THEN allTools ELSE applied[i + 1].before
        IN (OnlyRemoved(d) /\ ~MapHas(before, d.removed[1]))
              => (after = before /\ Tools(after) = Tools(before))

C8_Witness ==
    /\ Len(applied) > 0
    /\ OnlyRemoved(applied[Len(applied)].delta)
    /\ applied[Len(applied)].delta.removed[1] = "search"
    /\ ~MapHas(applied[Len(applied)].before, "search")
    /\ Len(allTools) > 0

\* C9: applying {added: T} to a table that has an entry for T.id puts T in
\* that entry's place and leaves the others alone, the table keeps one entry
\* per id, and applying the same added delta a second time changes nothing.
C9_AddReplaces ==
    /\ \A i, j \in 1..Len(allTools) : allTools[i].key = allTools[j].key => i = j
    /\ \A i \in 1..Len(allTools) : allTools[i].value.id = allTools[i].key
    /\ \A i \in 1..Len(applied) :
        LET d == applied[i].delta
            before == applied[i].before
            after == IF i = Len(applied) THEN allTools ELSE applied[i + 1].before
        IN (OnlyAdded(d) /\ MapHas(before, d.added[1].id))
              => /\ Len(after) = Len(before)
                 /\ MapGet(after, d.added[1].id) = d.added[1]
                 /\ \A k \in 1..Len(before) :
                       /\ after[k].key = before[k].key
                       /\ before[k].key # d.added[1].id => after[k] = before[k]
    /\ (/\ Len(applied) = 2
        /\ OnlyAdded(applied[1].delta)
        /\ applied[2].delta = applied[1].delta)
          => allTools = applied[2].before

C9_Witness ==
    /\ Len(applied) = 2
    /\ OnlyAdded(applied[1].delta)
    /\ applied[2].delta = applied[1].delta
    /\ MapHas(applied[1].before, applied[1].delta.added[1].id)
    /\ MapGet(applied[1].before, applied[1].delta.added[1].id) # applied[1].delta.added[1]
    /\ Len(allTools) = 2

-----------------------------------------------------------------------------
(* The mirror and its peer: the snapshot and the deltas of one tool table *)

InitSync == InitCommands

\* The peer registers a tool, or registers it anew with another descriptor,
\* and pushes the added delta.
PeerRegisterTool(tool) ==
    /\ Len(channel) < MaxChannel
    /\ IF MapHas(mainTools, tool.id) THEN MapGet(mainTools, tool.id) # tool ELSE TRUE
    /\ mainTools' = MapSet(mainTools, tool.id, tool)
    /\ channel' = Append(channel, [type |-> "delta",
                                   delta |-> [added |-> Some(tool), removed |-> Undefined]])
    /\ UNCHANGED <<mirrorVars, cmdVars, toolVars>>

\* The peer unregisters a tool and pushes the removed delta.
PeerUnregisterTool(id) ==
    /\ Len(channel) < MaxChannel
    /\ MapHas(mainTools, id)
    /\ mainTools' = MapDelete(mainTools, id)
    /\ channel' = Append(channel, [type |-> "delta",
                                   delta |-> [added |-> Undefined, removed |-> Some(id)]])
    /\ UNCHANGED <<mirrorVars, cmdVars, toolVars>>

\* The peer answers $getTools() with its table of that moment.
PeerGetTools ==
    /\ Len(channel) < MaxChannel
    /\ getTools.st = "requested"
    /\ getTools' = [getTools EXCEPT !.st = "answered"]
    /\ channel' = Append(channel, [type |-> "tools", tools |-> MapValues(mainTools)])
    /\ UNCHANGED <<allTools, applied, mainTools, cmdVars, toolVars>>

\* The mirror takes the next message: a delta runs $acceptToolDelta, the
\* reply of $getTools() resolves the promise of line 29.
MirrorReceives ==
    /\ channel # <<>>
    /\ channel' = Tail(channel)
    /\ IF Head(channel).type = "delta"
       THEN /\ allTools' = AcceptToolDelta(allTools, Head(channel).delta)
            /\ applied' = Remember(applied, Head(channel).delta, allTools)
            /\ UNCHANGED getTools
       ELSE /\ getTools' = [st |-> "resolved", tools |-> Head(channel).tools]
            /\ UNCHANGED <<allTools, applied>>
    /\ UNCHANGED <<mainTools, cmdVars, toolVars>>

\* The then-callback of lines 29-33 runs, as a job of its own.
SnapshotApplied ==
    /\ getTools.st = "resolved"
    /\ getTools' = [getTools EXCEPT !.st = "applied"]
    /\ allTools' = SetAllRevived(allTools, getTools.tools)
    /\ UNCHANGED <<applied, peerVars, cmdVars, toolVars>>

NextSync ==
    \/ \E tool \in ToolData(ToolIds) : PeerRegisterTool(tool)
    \/ \E id \in ToolIds : PeerUnregisterTool(id)
    \/ PeerGetTools
    \/ MirrorReceives
    \/ SnapshotApplied

SpecSync == InitSync /\ [][NextSync]_vars

\* C6: once the snapshot has been applied and every delta delivered, a tool
\* id is in the mirror's table iff it is in the authoritative table (its last
\* event there was a registration), and with the descriptor it has there.
C6_MirrorConsistent ==
    (getTools.st = "applied" /\ channel = <<>>)
        => /\ MapKeys(allTools) = MapKeys(mainTools)
           /\ \A id \in MapKeys(allTools) :
                 ToolDescriptionTo(MapGet(allTools, id)) = ToolDescriptionTo(MapGet(mainTools, id))

-----------------------------------------------------------------------------
(* CommandService: what a call's record says *)

LogHas(e, ev) == \E i \in 1..Len(e.log) : e.log[i].ev = ev

\* The handler was invoked.
Invoked(e) == LogHas(e, "invokeFunction")

\* The call ran the then-callback of waitFor before going on.
Awaited(e) == LogHas(e, "then")

\* The last registry lookup of the call found nothing.
LastLookupAbsent(e) ==
    \E i \in 1..Len(e.log) :
        /\ e.log[i] = Event("getCommand", NoCommand)
        /\ \A j \in (i + 1)..Len(e.log) : e.log[j].ev # "getCommand"

\* C1 as stated: a command registered at call time, with the host-ready flag
\* already true, has its handler invoked without waiting for the
\* activateByEvent('onCommand:' + id) future.
C1_FastPathWhenReady ==
    \A c \in Execs :
        (exec[c].pc # "idle" /\ exec[c].commandIsRegistered /\ exec[c].readyAtCall)
            => (exec[c].pc = "done" /\ Invoked(exec[c]) /\ ~Awaited(exec[c]))

\* C1 amended: a command registered at call time is executed without waiting
\* for the activation future exactly when the host-ready flag is still FALSE
\* at the call (the handler has run while that future is still pending);
\* with the flag TRUE the handler is invoked only after the future resolved.
C1_FastPathWhenNotReady ==
    \A c \in Execs :
        /\ (exec[c].pc # "idle" /\ exec[c].commandIsRegistered /\ ~exec[c].readyAtCall)
              => /\ exec[c].pc = "done"
                 /\ Invoked(exec[c])
                 /\ ~Awaited(exec[c])
                 /\ exec[c].activation = "pending"
        /\ (exec[c].commandIsRegistered /\ exec[c].readyAtCall /\ Invoked(exec[c]))
              => (Awaited(exec[c]) /\ exec[c].activation = "resolved")

C1_Witness ==
    \E c \in Execs :
        /\ exec[c].pc = "done"
        /\ exec[c].commandIsRegistered /\ ~exec[c].readyAtCall
        /\ Invoked(exec[c])
        /\ exec[c].activation = "pending"

\* C2 as stated: a command absent at call time and still absent when the
\* combined wait settles makes executeCommand reject with
\* `command '<id>' not found`, and no handler is invoked.
C2_NotFoundWhenWaitSettles ==
    \A c \in Execs :
        (/\ exec[c].pc = "done"
         /\ ~exec[c].commandIsRegistered
         /\ exec[c].absentAtSettle
         /\ LastLookupAbsent(exec[c]))
            => /\ exec[c].result = [state |-> "rejected", error |-> NotFoundError(exec[c].id)]
               /\ ~Invoked(exec[c])

\* C2 amended: for a command absent at call time, once the combined wait has
\* settled the call always goes on (its continuation is enabled); if the wait
\* was fulfilled and the lookup after it still finds nothing, executeCommand
\* rejects with `command '<id>' not found`; if the wait was rejected,
\* executeCommand rejects with the activation failure and looks nothing up.
\* No handler is invoked in either case.
C2_NotFoundWhenWaitFulfils ==
    \A c \in Execs :
        LET e == exec[c] IN
        /\ (e.pc = "waiting" /\ WaitFor(e) # "pending") => ENABLED Resume(c)
        /\ (e.pc = "done" /\ ~e.commandIsRegistered /\ LastLookupAbsent(e))
              => /\ ~Invoked(e)
                 /\ IF WaitFor(e) = "resolved"
                    THEN /\ Awaited(e)
                         /\ e.result = [state |-> "rejected", error |-> NotFoundError(e.id)]
                    ELSE /\ ~Awaited(e)
                         /\ e.result = [state |-> "rejected", error |-> WaitError(e)]

C2_Witness ==
    \E c \in Execs :
        /\ exec[c].pc = "done"
        /\ ~exec[c].commandIsRegistered
        /\ Awaited(exec[c])
        /\ exec[c].absentAtSettle
        /\ exec[c].result = [state |-> "rejected", error |-> NotFoundError(exec[c].id)]

\* The handlers the call invoked, in order.
HandlersInvoked(e) ==
    LET invocations == SelectSeq(e.log, LAMBDA entry : entry.ev = "invokeFunction")
    IN [i \in 1..Len(invocations) |-> invocations[i].arg]

\* C13: a call that invoked a handler invoked it once; it rejects with the
\* error the handler threw or the error of the rejected future the handler
\* returned, as it is, and resolves with the value the handler returned
\* otherwise.
C13_OutcomeNormalised ==
    \A c \in Execs :
        (exec[c].pc = "done" /\ Invoked(exec[c]))
            => /\ Len(HandlersInvoked(exec[c])) = 1
               /\ LET h == HandlersInvoked(exec[c])[1] IN
                  /\ h = "hThrows" =>
                        exec[c].result = [state |-> "rejected", error |-> HandlerError("hThrows")]
                  /\ h = "hRejects" =>
                        exec[c].result = [state |-> "rejected", error |-> HandlerError("hRejects")]
                  /\ h = "hReturns" =>
                        exec[c].result = [state |-> "resolved",
                                          value |-> <<"value of", "hReturns", exec[c].args>>]

C13_Witness ==
    \E c \in Execs :
        /\ exec[c].pc = "done"
        /\ Awaited(exec[c])
        /\ HandlersInvoked(exec[c]) = <<"hRejects">>
        /\ exec[c].result = [state |-> "rejected", error |-> HandlerError("hRejects")]

\* C14: the host-ready flag is false until the continuation of line 31 has
\* run, changes only in that one step, and never goes from true to false.
C14_ReadyFlagMonotonic ==
    /\ [](readyPromise = "pending" => ~extensionHostIsReady)
    /\ [][extensionHostIsReady => extensionHostIsReady']_vars
    /\ [][extensionHostIsReady' # extensionHostIsReady
            => (readyPromise = "pending" /\ readyPromise' = "resolved")]_vars
    /\ [][readyPromise = "resolved" => readyPromise' = "resolved"]_vars

C14_Witness ==
    /\ extensionHostIsReady
    /\ readyPromise = "resolved"
    /\ \E c \in Execs : exec[c].pc = "done" /\ ~exec[c].readyAtCall

C19_ActivationEventFirst ==
    \A c \in Execs :
        exec[c].pc # "idle"
            => /\ exec[c].log[1] = OnCommand(exec[c].id)
               /\ \A i \in 2..Len(exec[c].log) :
                     exec[c].log[i].ev # "activateByEvent:onCommand"

C19_Witness ==
    \E c \in Execs :
        /\ exec[c].pc = "done"
        /\ ~exec[c].readyAtCall /\ exec[c].commandIsRegistered
        /\ ~Awaited(exec[c]) /\ Invoked(exec[c])
        /\ exec[c].log[1] = OnCommand(exec[c].id)

\* The call took the branch of lines 46-58.
Waited(e) == ~NoWaitBranch(e.readyAtCall, e.commandIsRegistered)

\* C20: activateByEvent('*') is called iff the command is not registered
\* at call time; the lookup of _tryExecuteCommand on the waiting branch
\* comes after the then-callback, which runs only when the onCommand
\* activation and, if it was called, the '*' activation are fulfilled; for
\* a command registered at call time the onCommand activation alone is
\* awaited.
C20_WaitComposition ==
    \A c \in Execs :
        exec[c].pc # "idle"
            => /\ LogHas(exec[c], "activateByEvent:*") <=> ~exec[c].commandIsRegistered
               /\ exec[c].star # None <=> ~exec[c].commandIsRegistered
               /\ Waited(exec[c])
                     => \A i \in 3..Len(exec[c].log) :
                           exec[c].log[i].ev = "getCommand"
                             => \E j \in 1..(i - 1) : exec[c].log[j].ev = "then"
               /\ Awaited(exec[c])
                     => /\ exec[c].activation = "resolved"
                        /\ ~exec[c].commandIsRegistered => exec[c].star = "resolved"
               /\ (/\ exec[c].pc = "waiting"
                   /\ exec[c].commandIsRegistered
                   /\ exec[c].activation # "pending")
                     => ENABLED Resume(c)

C20_Witness ==
    \E c \in Execs :
        /\ exec[c].pc = "done"
        /\ ~exec[c].commandIsRegistered
        /\ LogHas(exec[c], "activateByEvent:*")
        /\ exec[c].activation = "resolved" /\ exec[c].star = "resolved"
        /\ Awaited(exec[c]) /\ Invoked(exec[c])

\* What the call found in the registry at line 42.
FoundAtCall(e) == e.log[2].arg

\* The call is over and went through the branch of lines 46-58.
DoneWaiting(e) == e.pc = "done" /\ Waited(e)

\* The not-found rejection, the handler's outcome otherwise: what the
\* command the registry holds for the call's id makes of the call.
OutcomeOf(command, e) ==
    IF command = NoCommand
    THEN [state |-> "rejected", error |-> NotFoundError(e.id)]
    ELSE TryExecuteCommand([id \in CommandIds |-> command], e.id, e.args).result

\* The second lookup of a call: the first getCommand after the callback.
SecondLookup(e) ==
    LET i == CHOOSE k \in 1..Len(e.log) : e.log[k].ev = "then" IN e.log[i + 1].arg

\* C21 as stated: every call that went through the waiting branch and whose
\* wait has settled looked the command up again, and what that lookup found
\* decides the outcome.
C21_RelookupWhenWaitSettles ==
    \A c \in Execs :
        DoneWaiting(exec[c])
            => /\ Awaited(exec[c])
               /\ exec[c].result = OutcomeOf(SecondLookup(exec[c]), exec[c])

\* C21 amended: a call on the waiting branch whose wait was fulfilled looks
\* the command up again in the then-callback, and that lookup decides: the
\* handler found then is the one invoked, whatever line 42 found, and a
\* command gone by then gives the not-found rejection and no invocation. A
\* wait that was rejected is followed by no lookup.
C21_RelookupWhenWaitFulfils ==
    \A c \in Execs :
        LET e == exec[c] IN
        DoneWaiting(e)
            => IF WaitFor(e) = "resolved"
               THEN /\ Awaited(e)
                    /\ Len(SelectSeq(e.log, LAMBDA entry : entry.ev = "getCommand")) = 2
                    /\ SecondLookup(e) = e.atCallback
                    /\ e.result = OutcomeOf(SecondLookup(e), e)
                    /\ SecondLookup(e) = NoCommand => ~Invoked(e)
                    /\ SecondLookup(e) # NoCommand
                          => HandlersInvoked(e) = <<SecondLookup(e)>>
               ELSE /\ ~Awaited(e)
                    /\ Len(SelectSeq(e.log, LAMBDA entry : entry.ev = "getCommand")) = 1

\* A call that found a handler at call time, waited, and found the command
\* gone; the stale handler was not invoked.
C21_Witness ==
    \E c \in Execs :
        /\ DoneWaiting(exec[c]) /\ Awaited(exec[c])
        /\ FoundAtCall(exec[c]) = "hReturns"
        /\ SecondLookup(exec[c]) = NoCommand
        /\ ~Invoked(exec[c])
        /\ exec[c].result = [state |-> "rejected", error |-> NotFoundError(exec[c].id)]

\* The places in the call's log where an entry of the kind ev stands.
PlacesOf(e, ev) == {i \in 1..Len(e.log) : e.log[i].ev = ev}

\* The lookup of _tryExecuteCommand (line 62) found the command: the
\* lookups after the one of line 42, which is the second entry of the log.
FoundByTry(e) ==
    \E i \in 3..Len(e.log) : e.log[i].ev = "getCommand" /\ e.log[i].arg # NoCommand

\* C22: a call whose command was found by _tryExecuteCommand fired
\* onWillExecuteCommand once, with the id of the command, right after that
\* lookup and before the one invocation of the handler; a call that has not
\* found its command (not yet, or not at all) has fired nothing.
C22_NotifiedOnceBeforeHandler ==
    \A c \in Execs :
        LET e == exec[c]
            fired == PlacesOf(e, "onWillExecuteCommand")
            invoked == PlacesOf(e, "invokeFunction")
        IN /\ \A i \in fired : e.log[i] = Event("onWillExecuteCommand", e.id)
           /\ FoundByTry(e)
                 => /\ Cardinality(fired) = 1
                    /\ Cardinality(invoked) = 1
                    /\ \A i \in fired, j \in invoked :
                          /\ i < j
                          /\ i > 2
                          /\ e.log[i - 1].ev = "getCommand"
                          /\ e.log[i - 1].arg # NoCommand
           /\ ~FoundByTry(e) => (fired = {} /\ invoked = {})

C22_Witness ==
    \E c \in Execs :
        /\ exec[c].pc = "done" /\ Awaited(exec[c])
        /\ ~exec[c].commandIsRegistered
        /\ Invoked(exec[c])
        /\ PlacesOf(exec[c], "onWillExecuteCommand") = {Len(exec[c].log) - 1}
        /\ PlacesOf(exec[c], "invokeFunction") = {Len(exec[c].log)}

\* The call was made in this extension host.
MadeHere(c) == calls[c].st # "idle" /\ calls[c].origin = "here"

\* C23: a call made here has an entry under its call id when its request
\* is sent iff it brought tokenOptions, and the entry is the counting
\* function it brought; while the call is in flight the entry stays, so a
\* count-tokens callback with its call id is answered by that function.
C23_RegisteredBeforeRequest ==
    \A c \in Calls :
        MadeHere(c)
            => /\ calls[c].entryAtSend # <<>>
               /\ calls[c].entryAtSend[1] # NoFunc <=> WithCounting(c)
               /\ WithCounting(c)
                     => calls[c].entryAtSend[1] = calls[c].tokenOptions[1].countTokens
               /\ InFlight(c)
                     => /\ tokenCountFuncs[calls[c].callId] = calls[c].entryAtSend[1]
                        /\ WithCounting(c) => AnswersOwnCallbacks(c)

C23_Witness ==
    \E c, d \in Calls :
        /\ MadeHere(c) /\ InFlight(c) /\ WithCounting(c)
        /\ calls[c].request = "sent"
        /\ MadeHere(d) /\ InFlight(d) /\ ~WithCounting(d)
        /\ tokenCountFuncs[calls[d].callId] = NoFunc
        /\ countReply # <<>>
        /\ countReply[1].callId = calls[c].callId
        /\ countReply[1].registered = CountTokensOf(c)
        /\ ~countReply[1].answer.threw

\* The handler of call c has been started by $invokeTool, with a budget.
StartedWithBudget(c) ==
    calls[c].owner # "none" /\ InvokationDto(calls[c]).tokenBudget # Undefined

\* The handler of call c has called its counting capability.
HasCounted(c) == calls[c].counts > 0

\* C24 as stated: whenever the request carries a token budget, the
\* capability the handler gets is the remote count-tokens call, and every
\* use of it makes that call, also when the caller is this extension host.
C24_AlwaysRemoteCallback ==
    \A c \in Calls :
        StartedWithBudget(c)
            => /\ calls[c].capability.kind = "remote"
               /\ HasCounted(c) => calls[c].countToken # <<>>

\* C24 amended: whenever the request carries a token budget the handler
\* gets a capability. If _tokenCountFuncs of the owning side holds a
\* function for the call id when $invokeTool runs, which is so for a call
\* made in this extension host and still in flight, the capability is that
\* function and no remote call is made; otherwise, as for every call made
\* in another extension host, it is the remote count-tokens call for the
\* call id, made at every use.
C24_RemoteUnlessSameHost ==
    \A c \in Calls :
        StartedWithBudget(c)
            => LET held == calls[c].entryAtInvoke[1] IN
               /\ held # NoFunc
                     => /\ calls[c].capability = [kind |-> "local", fn |-> held]
                        /\ calls[c].countToken = <<>>
               /\ held = NoFunc
                     => /\ calls[c].capability = [kind |-> "remote", fn |-> NoFunc]
                        /\ HasCounted(c) => calls[c].countToken # <<>>
               /\ calls[c].origin = "elsewhere" => held = NoFunc
               /\ (calls[c].origin = "here" /\ ~calls[c].cancelled)
                     => held = calls[c].tokenOptions[1].countTokens

C24_Witness ==
    \E c, d \in Calls :
        /\ calls[c].origin = "here" /\ StartedWithBudget(c) /\ HasCounted(c)
        /\ calls[c].capability.kind = "local"
        /\ calls[c].counted = Some(Returned(ApplyCount(CountTokensOf(c), calls[c].asked[1])))
        /\ calls[d].origin = "elsewhere" /\ StartedWithBudget(d) /\ HasCounted(d)
        /\ calls[d].capability.kind = "remote"
        /\ calls[d].countToken # <<>>

\* C25: a call in flight whose token has been cancelled settles, and when
\* it has settled no counting function is registered for its call id,
\* whether or not the request is ever answered.
C25_CancelledCallSettles ==
    \A c \in Calls :
        (InFlight(c) /\ calls[c].cancelled)
            ~> (Settled(c) /\ tokenCountFuncs[calls[c].callId] = NoFunc)

\* A call with a counting function that was cancelled and has settled
\* while its request never got an answer.
C25_Witness ==
    \E c \in Calls :
        /\ Settled(c) /\ WithCounting(c)
        /\ calls[c].cancelled
        /\ calls[c].request = "sent"
        /\ calls[c].outcome = Some(Threw(CancelledError))
        /\ tokenCountFuncs[calls[c].callId] = NoFunc

\* The keys of _tokenCountFuncs.
FuncKeys == {id \in DOMAIN tokenCountFuncs : tokenCountFuncs[id] # NoFunc}

\* The calls made here that are in flight and brought a counting function.
Holders == {c \in Calls : MadeHere(c) /\ InFlight(c) /\ WithCounting(c)}

\* C26: the keys of _tokenCountFuncs are the call ids of the calls in
\* flight that brought a counting function, one key for each of them and
\* holding its function; a settled call has no key; and the call id of a
\* call whose entry exists is the call id of no other call.
C26_KeysAreInFlightCalls ==
    /\ FuncKeys = {calls[c].callId : c \in Holders}
    /\ Cardinality(FuncKeys) = Cardinality(Holders)
    /\ \A c \in Holders :
          /\ tokenCountFuncs[calls[c].callId] = calls[c].tokenOptions[1].countTokens
          /\ \A d \in Calls \ {c} :
                calls[d].st # "idle" => calls[d].callId # calls[c].callId
    /\ \A c \in Calls : Settled(c) => calls[c].callId \notin FuncKeys

C26_Witness ==
    \E c, d \in Calls :
        /\ c \in Holders /\ d \in Holders /\ c # d
        /\ FuncKeys = {calls[c].callId, calls[d].callId}
        /\ Cardinality(FuncKeys) = 2

\* C27: every call sends the activation event first. A call made with the
\* flag false and the command registered runs _tryExecuteCommand at once:
\* it is over when executeCommand returns, the handler has been invoked,
\* the activation future is still pending, nothing was awaited and no
\* progress was shown. In every other combination of flag and registration
\* the call shows progress and looks up and invokes only in the callback
\* that runs when the activation it waits for is fulfilled.
C27_NoWaitOnlyBeforeHostStarts ==
    \A c \in Execs :
        LET e == exec[c] IN
        e.pc # "idle"
            => /\ e.log[1] = OnCommand(e.id)
               /\ (~e.readyAtCall /\ e.commandIsRegistered)
                     => /\ e.pc = "done"
                        /\ Invoked(e)
                        /\ ~Awaited(e)
                        /\ e.activation = "pending"
                        /\ ~e.progress /\ ~LogHas(e, "withProgress")
               /\ ~(~e.readyAtCall /\ e.commandIsRegistered)
                     => /\ e.progress /\ LogHas(e, "withProgress")
                        /\ (\E i \in 3..Len(e.log) : e.log[i].ev = "getCommand")
                              => (Awaited(e) /\ e.activation = "resolved")
                        /\ \A i \in 3..Len(e.log) :
                              e.log[i].ev \in {"getCommand", "onWillExecuteCommand", "invokeFunction"}
                                => \E j \in 3..(i - 1) : e.log[j].ev = "then"

C27_Witness ==
    \E c \in Execs :
        /\ exec[c].pc = "done"
        /\ ~exec[c].readyAtCall /\ exec[c].commandIsRegistered
        /\ extensionHostIsReady
        /\ exec[c].log[1] = OnCommand(exec[c].id)
        /\ HandlersInvoked(exec[c]) = <<"hThrows">>
        /\ ~exec[c].progress
        /\ exec[c].activation = "pending"

\* A future the call waited for was rejected.
WaitRejected(e) == Waited(e) /\ "rejected" \in {e.activation, e.star}

\* C28: a call whose wait was rejected goes on to its end, and at its end
\* it is rejected with the failure of the activation that failed; it has
\* made no lookup but the one of line 42, fired no onWillExecuteCommand and
\* invoked no handler.
C28_RejectedWaitPropagates ==
    \A c \in Execs :
        LET e == exec[c] IN
        /\ (e.pc = "waiting" /\ WaitRejected(e)) => ENABLED Resume(c)
        /\ (e.pc = "done" /\ WaitRejected(e))
              => /\ e.activation = "rejected"
                    => e.result = [state |-> "rejected",
                                   error |-> ActivationError(OnCommand(e.id))]
                 /\ e.star = "rejected"
                    => e.result = [state |-> "rejected", error |-> ActivationError(StarEvent)]
                 /\ PlacesOf(e, "getCommand") = {2}
                 /\ PlacesOf(e, "then") = {}
                 /\ PlacesOf(e, "onWillExecuteCommand") = {}
                 /\ ~Invoked(e)

\* The '*' activation failed after the onCommand activation had been
\* fulfilled, and the command, registered meanwhile, was not executed.
C28_Witness ==
    \E c \in Execs :
        /\ exec[c].pc = "done"
        /\ exec[c].activation = "resolved" /\ exec[c].star = "rejected"
        /\ registry[exec[c].id] # NoCommand
        /\ exec[c].result = [state |-> "rejected", error |-> ActivationError(StarEvent)]
        /\ ~Invoked(exec[c])

\* The delta carries an added descriptor and a removed id.
AddedAndRemoved(delta) == delta.added # Undefined /\ delta.removed # Undefined

\* C29: after a delta that carries both, the removed id has no entry, and
\* the added descriptor has its entry unless its id is the removed one.
C29_AddFirstThenRemove ==
    \A i \in 1..Len(applied) :
        LET d == applied[i].delta
            after == IF i = Len(applied) THEN allTools ELSE applied[i + 1].before
        IN AddedAndRemoved(d)
              => /\ ~MapHas(after, d.removed[1])
                 /\ d.added[1].id # d.removed[1]
                       => (MapHas(after, d.added[1].id)
                             /\ MapGet(after, d.added[1].id) = d.added[1])

\* The disposable of registration h of the name is disposed in this step.
Disposes(name, h) ==
    h \in handles[name].live /\ h \notin handles'[name].live

\* The request of call c is handled in this step.
RequestHandled(c) == calls[c].request = "sent" /\ calls'[c].request = "handled"

\* C30: disposing the disposable of any registration of a name, the first
\* of two as well, leaves the name without an entry and unregistered at
\* the peer, whatever other registrations of the name are outstanding; and
\* a request for a name without an entry fails with Unknown tool and starts
\* no handler, outstanding registrations or not.
C30_DisposalIsUnconditional ==
    /\ [][\A name \in ToolIds, h \in Handles :
            Disposes(name, h)
              => /\ registeredTools'[name] = NoTool
                 /\ name \notin peerRegistered'
                 /\ handles'[name].live = handles[name].live \ {h}]_vars
    /\ [][\A c \in Calls :
            (RequestHandled(c) /\ registeredTools[calls[c].toolId] = NoTool)
              => /\ calls'[c].owner = "none"
                 /\ calls'[c].handlerCalls = <<>>
                 /\ InFlight(c)
                       => calls'[c].reply = Some(Threw(UnknownToolError(calls[c].toolId)))]_vars
    /\ [](\A name \in ToolIds :
            registeredTools[name] # NoTool => handles[name].issued \in handles[name].live)

\* The name was registered twice, the first disposable was disposed and the
\* second is still held; a request that came before was served, and one
\* for the same name has failed with Unknown tool.
C30_Witness ==
    \E c, d \in Calls :
        /\ handles["search"] = [issued |-> 2, live |-> {2}]
        /\ registeredTools["search"] = NoTool
        /\ "search" \notin peerRegistered
        /\ calls[d].toolId = "search" /\ calls[d].known = Some(TRUE)
        /\ calls[c].toolId = "search" /\ calls[c].known = Some(FALSE)
        /\ Settled(c)
        /\ calls[c].outcome = Some(Threw(UnknownToolError("search")))

====
